---- MODULE Spec2Model ----
(***************************************************************************)
(* A model of spotify_player/src/state.rs: the shared State, its derived   *)
(* reads, the sort engine, the Track conversions and truncate_string.      *)
(*                                                                         *)
(* Strings that are compared or searched are sequences of code points;     *)
(* Option<T> is the record None or Some(v).                                *)
(*                                                                         *)
(* Four specifications share the variables:                                *)
(*   SpecTracks    the track list, the search state and the sort           *)
(*   SpecShared    the RwLock, the render actor and the update actor       *)
(*   SpecTruncate  truncate_string over bounded strings and widths         *)
(*   SpecConvert   the two conversions into Track over bounded loads       *)
(* The callers of state.rs (the update path, the render path) are not part *)
(* of the file and follow the specification of the repository.             *)
(***************************************************************************)
EXTENDS Integers, Sequences, FiniteSets, TLC

VARIABLES
    state,      \* the State behind SharedState
    lock,       \* the RwLock of SharedState: [readers, writer]
    render,     \* the render actor: [pc, ty, desc]
    update,     \* the update actor: [pc]
    committed,  \* the State as of the last released write handle
    op,         \* the last operation applied to the State: [name, crit, prev]
    view,       \* the Vec<&Track> a caller of get_context_filtered_tracks holds
    trunc,      \* a call of truncate_string: [s, max_len, out, pc]
    pending,    \* upstream records still to be converted
    loaded,     \* the converted records: [src, track]
    proc        \* "running", or "panicked" after an unwrap of None

vars == <<state, lock, render, update, committed, op, view, trunc, pending, loaded, proc>>

-----------------------------------------------------------------------------
(* Option<T> *)

None == [some |-> FALSE]

Some(v) == [some |-> TRUE, val |-> v]

-----------------------------------------------------------------------------
(* Bounds of the model *)

\* the longest track list the update path loads
MaxTracks == 3

\* the longest string handed to truncate_string
MaxLen == 4

\* the largest max_len handed to truncate_string
MaxWidth == 6

\* the most upstream records converted in one load
MaxItems == 2

\* the width of a timestamp, in bits (the code's is 64: i64 to u64)
TsBits == 3

-----------------------------------------------------------------------------
(* Strings: sequences of code points *)

CH_COMMA == 44

CH_SPACE == 32

\* std::cmp::Ordering of two integers (u32::cmp, u64::cmp)
IntCmp(a, b) == IF a < b THEN "Less" ELSE IF a = b THEN "Equal" ELSE "Greater"

\* String::cmp: lexicographic on the code points, a proper prefix is less
RECURSIVE StrCmp(_, _)
StrCmp(a, b) ==
    IF a = <<>> /\ b = <<>> THEN "Equal"
    ELSE IF a = <<>> THEN "Less"
    ELSE IF b = <<>> THEN "Greater"
    ELSE IF Head(a) # Head(b) THEN IntCmp(Head(a), Head(b))
    ELSE StrCmp(Tail(a), Tail(b))

\* [String]::join(sep)
RECURSIVE Join(_, _)
Join(strs, sep) ==
    IF strs = <<>> THEN <<>>
    ELSE IF Len(strs) = 1 THEN strs[1]
    ELSE strs[1] \o sep \o Join(Tail(strs), sep)

-----------------------------------------------------------------------------
(* Track, Album, Artist *)

Artist(id, uri, name) == [id |-> id, uri |-> uri, name |-> name]

Album(id, uri, name) == [id |-> id, uri |-> uri, name |-> name]

\* Album::default()
AlbumDefault == Album(None, None, <<>>)

Track(id, uri, name, artists, album, duration, added_at) ==
    [id |-> id, uri |-> uri, name |-> name, artists |-> artists, album |-> album,
     duration |-> duration, added_at |-> added_at]

get_artists_info(t) ==
    Join([i \in 1..Len(t.artists) |-> t.artists[i].name], <<CH_COMMA>>)

get_basic_info(t) ==
    t.name \o <<CH_SPACE>> \o get_artists_info(t) \o <<CH_SPACE>> \o t.album.name

-----------------------------------------------------------------------------
(* ContextSortOrder *)

ContextSortOrder == {"AddedAt", "TrackName", "Album", "Artists", "Duration"}

\* a mutant of compare: the AddedAt arm compares the durations
compare_added_at_by_duration(sort_oder, x, y) ==
    CASE sort_oder = "AddedAt" -> IntCmp(x.duration, y.duration)
      [] sort_oder = "TrackName" -> StrCmp(x.name, y.name)
      [] sort_oder = "Album" -> StrCmp(x.album.name, y.album.name)
      [] sort_oder = "Duration" -> IntCmp(x.duration, y.duration)
      [] sort_oder = "Artists" -> StrCmp(get_artists_info(x), get_artists_info(y))

compare(sort_oder, x, y) ==
    CASE sort_oder = "AddedAt" -> IntCmp(x.added_at, y.added_at)
      [] sort_oder = "TrackName" -> StrCmp(x.name, y.name)
      [] sort_oder = "Album" -> StrCmp(x.album.name, y.album.name)
      [] sort_oder = "Duration" -> IntCmp(x.duration, y.duration)
      [] sort_oder = "Artists" -> StrCmp(get_artists_info(x), get_artists_info(y))

\* one insertion of a stable sort: x goes after every element not greater than it
RECURSIVE InsertSorted(_, _, _)
InsertSorted(sorted, x, sort_oder) ==
    IF sorted = <<>> THEN <<x>>
    ELSE IF compare(sort_oder, Head(sorted), x) = "Greater" THEN <<x>> \o sorted
    ELSE <<Head(sorted)>> \o InsertSorted(Tail(sorted), x, sort_oder)

\* slice::sort_by with the comparator of sort_oder: a stable sort
RECURSIVE SortBy(_, _)
SortBy(tracks, sort_oder) ==
    IF tracks = <<>> THEN <<>>
    ELSE InsertSorted(SortBy(SubSeq(tracks, 1, Len(tracks) - 1), sort_oder),
                      tracks[Len(tracks)], sort_oder)

-----------------------------------------------------------------------------
(* State *)

ContextSearchStateDefault == [query |-> None, tracks |-> <<>>]

StateDefault ==
    [current_playback_context |-> None,
     current_playlist |-> None,
     current_album |-> None,
     current_context_tracks |-> <<>>,
     context_search_state |-> ContextSearchStateDefault]

sort_context_tracks(st, sort_oder) ==
    [st EXCEPT !.current_context_tracks = SortBy(@, sort_oder)]

get_context_type(st) ==
    IF st.current_playback_context = None THEN None
    ELSE IF st.current_playback_context.val.context = None THEN None
    ELSE Some(st.current_playback_context.val.context.val._type)

\* a mutant of get_context_description: the Album arm reads current_playlist
get_context_description_album_reads_playlist(st) ==
    LET ty == get_context_type(st) IN
    IF ty = None THEN "Cannot infer the playing context from current playback"
    ELSE IF ty.val = "Album"
         THEN "Album: " \o (IF st.current_playlist = None THEN "loading..."
                            ELSE st.current_playlist.val.name)
    ELSE IF ty.val = "Playlist"
         THEN "Playlist: " \o (IF st.current_playlist = None THEN "loading..."
                               ELSE st.current_playlist.val.name)
    ELSE "Unknown context type"

get_context_description(st) ==
    LET ty == get_context_type(st) IN
    IF ty = None THEN "Cannot infer the playing context from current playback"
    ELSE IF ty.val = "Album"
         THEN "Album: " \o (IF st.current_album = None THEN "loading..."
                            ELSE st.current_album.val.name)
    ELSE IF ty.val = "Playlist"
         THEN "Playlist: " \o (IF st.current_playlist = None THEN "loading..."
                               ELSE st.current_playlist.val.name)
    ELSE "Unknown context type"

\* a mutant of get_context_filtered_tracks: an empty query counts as no query
get_context_filtered_tracks_empty_is_none(st) ==
    IF st.context_search_state.query.some /\ st.context_search_state.query.val # <<>>
    THEN st.context_search_state.tracks
    ELSE st.current_context_tracks

get_context_filtered_tracks(st) ==
    IF st.context_search_state.query.some
    THEN st.context_search_state.tracks
    ELSE st.current_context_tracks

-----------------------------------------------------------------------------
(* The search filter of the update path (spec 4.3): a case-insensitive     *)
(* substring match of the query against each track's basic-info string.    *)

\* char::to_lowercase on the ASCII letters
ToLower(str) == [i \in 1..Len(str) |-> IF str[i] >= 65 /\ str[i] <= 90 THEN str[i] + 32 ELSE str[i]]

\* str::contains
Contains(hay, needle) ==
    \E i \in 1..(Len(hay) - Len(needle) + 1) : SubSeq(hay, i, i + Len(needle) - 1) = needle

TrackMatches(t, q) == Contains(ToLower(get_basic_info(t)), ToLower(q))

FilterTracks(tracks, q) == SelectSeq(tracks, LAMBDA t : TrackMatches(t, q))

-----------------------------------------------------------------------------
(* The track list machine: the update path's mutations of the track list   *)
(* and the search state, and the read of the visible tracks.               *)

\* "b" by "a" on "a"; "A" by "b","a" on "a"; "ab" by "b" on "B"; "a" by nobody,
\* converted from a simplified track (default album, added_at 0)
TrackPool ==
    { Track(Some("t1"), "u1", <<98>>, <<Artist(Some("r1"), None, <<97>>)>>,
            Album(None, None, <<97>>), 2, 1),
      Track(Some("t2"), "u2", <<65>>,
            <<Artist(None, None, <<98>>), Artist(Some("r1"), None, <<97>>)>>,
            Album(None, None, <<97>>), 1, 1),
      Track(None, "u3", <<97, 98>>, <<Artist(None, None, <<98>>)>>,
            Album(None, None, <<66>>), 2, 0),
      Track(Some("t4"), "u4", <<97>>, <<>>, AlbumDefault, 1, 0) }

\* the track lists a context load may deliver: no track twice
TrackLists ==
    { l \in UNION { [1..n -> TrackPool] : n \in 0..MaxTracks } :
        \A i, j \in 1..Len(l) : l[i] = l[j] => i = j }

\* the queries typed: "", "A", "b," and "B"
Queries == { <<>>, <<65>>, <<98, 44>>, <<66>> }

NoView == None

otherVarsOfTracks == <<lock, render, update, committed, trunc, pending, loaded, proc>>

InitTracks ==
    /\ state = StateDefault
    /\ lock = [readers |-> 0, writer |-> FALSE]
    /\ render = [pc |-> "idle", ty |-> None, desc |-> ""]
    /\ update = [pc |-> "idle"]
    /\ committed = StateDefault
    /\ op = [name |-> "new", crit |-> "none", prev |-> "none"]
    /\ view = NoView
    /\ trunc = [s |-> <<>>, max_len |-> 0, out |-> <<>>, pc |-> "idle"]
    /\ pending = <<>>
    /\ loaded = <<>>
    /\ proc = "running"

\* the update path replaces the loaded context's track list wholesale; under an
\* active query the filtered list is recomputed from the new list (spec 3: the
\* derivation is recomputed, never cached stale)
ReplaceContextTracks ==
    \E tracks \in TrackLists :
        /\ state' = [state EXCEPT
                        !.current_context_tracks = tracks,
                        !.context_search_state.tracks =
                            IF state.context_search_state.query.some
                            THEN FilterTracks(tracks, state.context_search_state.query.val)
                            ELSE @]
        /\ op' = [name |-> "replace_tracks", crit |-> "none", prev |-> "none"]
        /\ view' = NoView
        /\ UNCHANGED otherVarsOfTracks

\* the update path sets the query and recomputes the filtered list
SetSearchQuery ==
    \E q \in Queries :
        /\ state' = [state EXCEPT !.context_search_state =
                        [query |-> Some(q),
                         tracks |-> FilterTracks(state.current_context_tracks, q)]]
        /\ op' = [name |-> "set_query", crit |-> "none", prev |-> "none"]
        /\ view' = NoView
        /\ UNCHANGED otherVarsOfTracks

\* the update path clears the query; the filtered list is left as it is
ClearSearchQuery ==
    /\ state.context_search_state.query.some
    /\ state' = [state EXCEPT !.context_search_state.query = None]
    /\ op' = [name |-> "clear_query", crit |-> "none", prev |-> "none"]
    /\ view' = NoView
    /\ UNCHANGED otherVarsOfTracks

SortContextTracks ==
    \E sort_oder \in ContextSortOrder :
        /\ state' = sort_context_tracks(state, sort_oder)
        /\ op' = [name |-> "sort_context_tracks", crit |-> sort_oder, prev |-> op.crit]
        /\ view' = NoView
        /\ UNCHANGED otherVarsOfTracks

\* a reader takes the visible tracks; the borrow ends at the next mutation
GetContextFilteredTracks ==
    /\ view' = Some(get_context_filtered_tracks(state))
    /\ op' = [name |-> "get_context_filtered_tracks", crit |-> "none", prev |-> "none"]
    /\ UNCHANGED state
    /\ UNCHANGED otherVarsOfTracks

NextTracks ==
    \/ ReplaceContextTracks
    \/ SetSearchQuery
    \/ ClearSearchQuery
    \/ SortContextTracks
    \/ GetContextFilteredTracks

SpecTracks == InitTracks /\ [][NextTracks]_vars

-----------------------------------------------------------------------------
(* Claims about the track list machine *)

\* a <= b in the lexicographic order of the code points
StrLeq(a, b) ==
    \/ /\ Len(a) <= Len(b)
       /\ \A i \in 1..Len(a) : a[i] = b[i]
    \/ \E k \in 1..Len(a) :
          /\ k <= Len(b)
          /\ a[k] < b[k]
          /\ \A i \in 1..(k - 1) : a[i] = b[i]

\* the names of a track's artists, each followed by a comma but the last
ArtistsKey(t) ==
    LET n == Len(t.artists)
        piece(i) == IF i < n THEN t.artists[i].name \o <<44>> ELSE t.artists[i].name
        RECURSIVE upto(_)
        upto(i) == IF i = 0 THEN <<>> ELSE upto(i - 1) \o piece(i)
    IN upto(n)

\* the key a criterion orders by
SortKey(c, t) ==
    CASE c = "AddedAt" -> t.added_at
      [] c = "TrackName" -> t.name
      [] c = "Album" -> t.album.name
      [] c = "Artists" -> ArtistsKey(t)
      [] c = "Duration" -> t.duration

KeyLeq(c, x, y) ==
    IF c \in {"AddedAt", "Duration"}
    THEN SortKey(c, x) <= SortKey(c, y)
    ELSE StrLeq(SortKey(c, x), SortKey(c, y))

CountOf(l, t) == Cardinality({ i \in 1..Len(l) : l[i] = t })

\* C1: whenever a query Some(q) is active, the visible tracks are exactly the
\* tracks of the current current_context_tracks whose basic info contains q
\* (case-insensitively), in the order of current_context_tracks.
C1_VisibleIsFilterOfCurrent ==
    state.context_search_state.query.some =>
        get_context_filtered_tracks(state)
            = FilterTracks(state.current_context_tracks, state.context_search_state.query.val)

\* C2: a call of get_context_filtered_tracks leaves the State as it is and
\* returns context_search_state.tracks, element for element, when the query is
\* Some (the empty query included), and current_context_tracks when it is None.
C2_VisibleSelectsByQuery ==
    [][op'.name = "get_context_filtered_tracks" =>
        LET q == state.context_search_state.query
            expected == IF q = None THEN state.current_context_tracks
                        ELSE state.context_search_state.tracks
        IN /\ state' = state
           /\ view'.some
           /\ Len(view'.val) = Len(expected)
           /\ \A i \in 1..Len(expected) : view'.val[i] = expected[i]]_vars

\* C2's case: the visible tracks were read under the empty query while the
\* filtered list differs from the full list.
C2_Witness ==
    /\ op.name = "get_context_filtered_tracks"
    /\ state.context_search_state.query = Some(<<>>)
    /\ state.context_search_state.tracks # state.current_context_tracks
    /\ state.context_search_state.tracks # <<>>
    /\ view = Some(state.context_search_state.tracks)

\* C5: sort_context_tracks(c) leaves a permutation of the list, ascending in
\* the key of c, tracks of equal key in their order from before the call; and
\* a sort by Duration followed by a sort by AddedAt leaves the tracks of equal
\* added_at in ascending duration.
C5_SortIsStablePermutation ==
    [][op'.name = "sort_context_tracks" =>
        LET before == state.current_context_tracks
            after == state'.current_context_tracks
            c == op'.crit
            sameKey(l, t) == SelectSeq(l, LAMBDA u : SortKey(c, u) = SortKey(c, t))
        IN /\ Len(after) = Len(before)
           /\ \A t \in TrackPool : CountOf(after, t) = CountOf(before, t)
           /\ \A i \in 1..(Len(after) - 1) : KeyLeq(c, after[i], after[i + 1])
           /\ \A t \in TrackPool : sameKey(after, t) = sameKey(before, t)
           /\ (c = "AddedAt" /\ op'.prev = "Duration") =>
                 \A i, j \in 1..Len(after) :
                    (i < j /\ after[i].added_at = after[j].added_at)
                        => after[i].duration <= after[j].duration]_vars

\* C5's case: a sort by AddedAt has followed a sort by Duration on a full list
\* that holds two tracks of equal added_at and different durations.
C5_Witness ==
    /\ op = [name |-> "sort_context_tracks", crit |-> "AddedAt", prev |-> "Duration"]
    /\ Len(state.current_context_tracks) = MaxTracks
    /\ \E i, j \in 1..Len(state.current_context_tracks) :
          /\ i < j
          /\ state.current_context_tracks[i].added_at = state.current_context_tracks[j].added_at
          /\ state.current_context_tracks[i].duration < state.current_context_tracks[j].duration

-----------------------------------------------------------------------------
(* SharedState = Arc<RwLock<State>>: the lock, and the two actors of        *)
(* spec 5 that share the State through it.                                 *)

\* a mutant of RwLockCanRead: a read handle is given out under a write handle
RwLockCanReadAlways(l) == TRUE

\* RwLock::read succeeds when no write handle is out
RwLockCanRead(l) == ~l.writer

\* RwLock::write succeeds when no handle is out
RwLockCanWrite(l) == ~l.writer /\ l.readers = 0

\* rspotify::senum::Type, the variants the description tells apart and two others
ContextTypes == {"Album", "Playlist", "Artist", "Show"}

PlaybackContexts ==
    {None, Some([context |-> None])}
        \cup { Some([context |-> Some([_type |-> ty])]) : ty \in ContextTypes }

FullAlbums == {None, Some([name |-> "X"])}

FullPlaylists == {None, Some([name |-> "Y"])}

otherVarsOfShared == <<op, view, trunc, pending, loaded, proc>>

InitShared == InitTracks

RenderAcquireRead ==
    /\ render.pc = "idle"
    /\ RwLockCanRead(lock)
    /\ lock' = [lock EXCEPT !.readers = @ + 1]
    /\ render' = [render EXCEPT !.pc = "reading"]
    /\ UNCHANGED <<state, update, committed, otherVarsOfShared>>

RenderContextType ==
    /\ render.pc = "reading"
    /\ render' = [render EXCEPT !.pc = "typed", !.ty = get_context_type(state)]
    /\ UNCHANGED <<state, lock, update, committed, otherVarsOfShared>>

RenderContextDescription ==
    /\ render.pc = "typed"
    /\ render' = [render EXCEPT !.pc = "described", !.desc = get_context_description(state)]
    /\ UNCHANGED <<state, lock, update, committed, otherVarsOfShared>>

RenderReleaseRead ==
    /\ render.pc = "described"
    /\ lock' = [lock EXCEPT !.readers = @ - 1]
    /\ render' = [pc |-> "idle", ty |-> None, desc |-> ""]
    /\ UNCHANGED <<state, update, committed, otherVarsOfShared>>

\* the update actor reads the State (to dispatch a key) under a read handle
UpdateAcquireRead ==
    /\ update.pc = "idle"
    /\ RwLockCanRead(lock)
    /\ lock' = [lock EXCEPT !.readers = @ + 1]
    /\ update' = [update EXCEPT !.pc = "reading"]
    /\ UNCHANGED <<state, render, committed, otherVarsOfShared>>

UpdateReleaseRead ==
    /\ update.pc = "reading"
    /\ lock' = [lock EXCEPT !.readers = @ - 1]
    /\ update' = [update EXCEPT !.pc = "idle"]
    /\ UNCHANGED <<state, render, committed, otherVarsOfShared>>

UpdateAcquireWrite ==
    /\ update.pc = "idle"
    /\ RwLockCanWrite(lock)
    /\ lock' = [lock EXCEPT !.writer = TRUE]
    /\ update' = [update EXCEPT !.pc = "writing"]
    /\ UNCHANGED <<state, render, committed, otherVarsOfShared>>

\* under the write handle the fields are assigned one at a time
SetPlaybackContext ==
    \E c \in PlaybackContexts :
        /\ update.pc = "writing"
        /\ state' = [state EXCEPT !.current_playback_context = c]
        /\ UNCHANGED <<lock, render, update, committed, otherVarsOfShared>>

SetCurrentAlbum ==
    \E a \in FullAlbums :
        /\ update.pc = "writing"
        /\ state' = [state EXCEPT !.current_album = a]
        /\ UNCHANGED <<lock, render, update, committed, otherVarsOfShared>>

SetCurrentPlaylist ==
    \E p \in FullPlaylists :
        /\ update.pc = "writing"
        /\ state' = [state EXCEPT !.current_playlist = p]
        /\ UNCHANGED <<lock, render, update, committed, otherVarsOfShared>>

UpdateReleaseWrite ==
    /\ update.pc = "writing"
    /\ lock' = [lock EXCEPT !.writer = FALSE]
    /\ update' = [update EXCEPT !.pc = "idle"]
    /\ committed' = state
    /\ UNCHANGED <<state, render, otherVarsOfShared>>

NextShared ==
    \/ RenderAcquireRead
    \/ RenderContextType
    \/ RenderContextDescription
    \/ RenderReleaseRead
    \/ UpdateAcquireRead
    \/ UpdateReleaseRead
    \/ UpdateAcquireWrite
    \/ SetPlaybackContext
    \/ SetCurrentAlbum
    \/ SetCurrentPlaylist
    \/ UpdateReleaseWrite

SpecShared == InitShared /\ [][NextShared]_vars

-----------------------------------------------------------------------------
(* Claims about the shared State *)

\* the description spec 4.4 gives for a declared type and the loaded album
\* and playlist
DescriptionTable(cpc, album, playlist) ==
    CASE cpc = None -> "Cannot infer the playing context from current playback"
      [] cpc # None /\ cpc.val.context = None ->
            "Cannot infer the playing context from current playback"
      [] OTHER ->
            LET ty == cpc.val.context.val._type IN
            CASE ty = "Album" /\ album = None -> "Album: loading..."
              [] ty = "Album" /\ album # None -> "Album: " \o album.val.name
              [] ty = "Playlist" /\ playlist = None -> "Playlist: loading..."
              [] ty = "Playlist" /\ playlist # None -> "Playlist: " \o playlist.val.name
              [] OTHER -> "Unknown context type"

\* C6: get_context_description is the fixed "cannot infer" message without a
\* playback context or context object, "Album: " and current_album's name (or
\* "loading...") for an Album, "Playlist: " and current_playlist's name (or
\* "loading...") for a Playlist, the fixed "unknown" message for any other
\* type; the Album arm does not depend on current_playlist nor the Playlist arm
\* on current_album.
C6_DescriptionIsTheTable ==
    [][(render.pc = "typed" /\ render'.pc = "described") =>
        /\ render'.desc = DescriptionTable(state.current_playback_context,
                                           state.current_album, state.current_playlist)
        /\ \A p \in FullPlaylists :
              get_context_type(state) = Some("Album") =>
                  render'.desc = DescriptionTable(state.current_playback_context,
                                                  state.current_album, p)
        /\ \A a \in FullAlbums :
              get_context_type(state) = Some("Playlist") =>
                  render'.desc = DescriptionTable(state.current_playback_context,
                                                  a, state.current_playlist)]_vars

\* C6's case: an Album context was described while both an album and a
\* playlist are loaded.
C6_Witness ==
    /\ render.pc = "described"
    /\ render.ty = Some("Album")
    /\ state.current_album = Some([name |-> "X"])
    /\ state.current_playlist = Some([name |-> "Y"])
    /\ render.desc = "Album: X"

\* C8: a write handle is never out together with a read handle or another
\* write handle, read handles may be out together, a reader sees the State as
\* the last completed write left it, and the context type and the description
\* read under one read handle come from that one snapshot.
C8_ReadersSeeOneSnapshot ==
    /\ lock.writer => lock.readers = 0
    /\ lock.writer <=> update.pc = "writing"
    /\ lock.readers = (IF render.pc # "idle" THEN 1 ELSE 0)
                        + (IF update.pc = "reading" THEN 1 ELSE 0)
    /\ render.pc # "idle" => state = committed
    /\ render.pc \in {"typed", "described"} => render.ty = get_context_type(committed)
    /\ render.pc = "described" =>
          render.desc = DescriptionTable(committed.current_playback_context,
                                         committed.current_album, committed.current_playlist)

\* C8's case: two read handles are out after a write that changed several
\* fields, and the render actor has read both the type and the description.
C8_Witness ==
    /\ lock.readers = 2
    /\ render.pc = "described"
    /\ render.ty = Some("Playlist")
    /\ render.desc = "Playlist: Y"
    /\ committed.current_album # None

-----------------------------------------------------------------------------
(* truncate_string *)

\* the code points handed to truncate_string: 'a' (one column), U+4F60 (a CJK
\* ideograph, two columns), U+0301 (a combining accent, no column) and U+0007
\* (a control character, which has no width)
TruncChars == {97, 20320, 769, 7}

\* UnicodeWidthChar::width
CharWidth(c) ==
    IF c < 32 \/ (c >= 127 /\ c < 160) THEN None
    ELSE IF c >= 768 /\ c <= 879 THEN Some(0)
    ELSE IF c >= 19968 /\ c <= 40959 THEN Some(2)
    ELSE Some(1)

\* Option::unwrap_or
UnwrapOr(o, d) == IF o.some THEN o.val ELSE d

\* UnicodeWidthStr::width: the widths of the characters, none for a control
\* character
RECURSIVE StrWidth(_)
StrWidth(str) ==
    IF str = <<>> THEN 0
    ELSE UnwrapOr(CharWidth(Head(str)), 0) + StrWidth(Tail(str))

\* "..."
Ellipsis == <<46, 46, 46>>

\* the fold of truncate_string over the characters from position i on, with
\* the accumulator (cs, cw)
RECURSIVE TruncateFold(_, _, _, _, _)
TruncateFold(str, i, cs, cw, max_len) ==
    IF i > Len(str) THEN cs
    ELSE LET w == UnwrapOr(CharWidth(str[i]), 2) IN
         IF cw + w + 3 > max_len
         THEN TruncateFold(str, i + 1, cs, cw, max_len)
         ELSE TruncateFold(str, i + 1, Append(cs, str[i]), cw + w, max_len)

truncate_string(str, max_len) ==
    IF StrWidth(str) > max_len
    THEN TruncateFold(str, 1, <<>>, 0, max_len) \o Ellipsis
    ELSE str

otherVarsOfTruncate == <<state, lock, render, update, committed, op, view, pending, loaded, proc>>

InitTruncate ==
    /\ trunc \in [s : UNION { [1..n -> TruncChars] : n \in 0..MaxLen },
                   max_len : 0..MaxWidth, out : {<<>>}, pc : {"called"}]
    /\ state = StateDefault
    /\ lock = [readers |-> 0, writer |-> FALSE]
    /\ render = [pc |-> "idle", ty |-> None, desc |-> ""]
    /\ update = [pc |-> "idle"]
    /\ committed = StateDefault
    /\ op = [name |-> "new", crit |-> "none", prev |-> "none"]
    /\ view = NoView
    /\ pending = <<>>
    /\ loaded = <<>>
    /\ proc = "running"

TruncateString ==
    /\ trunc.pc = "called"
    /\ trunc' = [trunc EXCEPT !.out = truncate_string(trunc.s, trunc.max_len),
                               !.pc = "returned"]
    /\ UNCHANGED otherVarsOfTruncate

NextTruncate == TruncateString

SpecTruncate == InitTruncate /\ [][NextTruncate]_vars

C4_ResultIsLongestPrefix ==
    ( /\ trunc.pc = "returned"
      /\ StrWidth(trunc.s) > trunc.max_len
      /\ trunc.max_len >= 3
      /\ \A i \in 1..Len(trunc.s) : CharWidth(trunc.s[i]).some ) =>
        \E k \in 0..Len(trunc.s) :
            /\ StrWidth(SubSeq(trunc.s, 1, k)) + 3 <= trunc.max_len
            /\ \A k2 \in (k + 1)..Len(trunc.s) :
                  StrWidth(SubSeq(trunc.s, 1, k2)) + 3 > trunc.max_len
            /\ trunc.out = SubSeq(trunc.s, 1, k) \o <<46, 46, 46>>

-----------------------------------------------------------------------------
(* The conversions into Track *)

\* 2^n
RECURSIVE Pow2(_)
Pow2(n) == IF n = 0 THEN 1 ELSE 2 * Pow2(n - 1)

\* `as u64` of a signed timestamp: the value modulo 2^width
AsUnsigned(t) == t % Pow2(TsBits)

\* a mutant of ConvertArtists: an artist already seen is dropped
ConvertArtistsDedup(artists) ==
    LET firsts == SelectSeq([i \in 1..Len(artists) |-> i],
                            LAMBDA i : \A j \in 1..(i - 1) : artists[j] # artists[i])
    IN [k \in 1..Len(firsts) |->
            Artist(artists[firsts[k]].id, artists[firsts[k]].uri, artists[firsts[k]].name)]

\* the artists of an upstream track, mapped field for field
ConvertArtists(artists) ==
    [i \in 1..Len(artists) |-> Artist(artists[i].id, artists[i].uri, artists[i].name)]

\* impl From<playlist::PlaylistTrack> for Track: the unwrap of an absent track
\* panics
TrackFromPlaylistTrack(t) ==
    IF t.track = None THEN [panic |-> TRUE]
    ELSE LET track == t.track.val IN
         [panic |-> FALSE,
          track |-> Track(track.id, track.uri, track.name,
                          ConvertArtists(track.artists),
                          Album(track.album.id, track.album.uri, track.album.name),
                          track.duration_ms,
                          AsUnsigned(t.added_at))]

\* impl From<track::SimplifiedTrack> for Track
TrackFromSimplifiedTrack(track) ==
    Track(track.id, track.uri, track.name,
          ConvertArtists(track.artists),
          AlbumDefault,
          track.duration_ms,
          0)

\* upstream artist lists: none, one, the same one twice, and two and three
\* in an order that is not the sorted one
UpstreamArtistLists ==
    LET a == [id |-> Some("r1"), uri |-> Some("ur1"), name |-> <<97>>]
        b == [id |-> None, uri |-> None, name |-> <<98>>]
        e == [id |-> Some("r3"), uri |-> None, name |-> <<>>]
    IN { <<>>, <<a>>, <<a, a>>, <<b, a>>, <<b, e, a>> }

\* the timestamps of the playlist items: the least and the greatest of the
\* signed width, and those around the epoch
Timestamps == { -Pow2(TsBits - 1), -1, 0, 1, Pow2(TsBits - 1) - 1 }

FullTracks ==
    { [id |-> Some("t1"), uri |-> "u1", name |-> <<97>>, artists |-> al,
       album |-> [id |-> Some("l1"), uri |-> None, name |-> <<98>>],
       duration_ms |-> 2] : al \in UpstreamArtistLists }

PlaylistTracks ==
    [kind : {"playlist"}, track : {None} \cup { Some(t) : t \in FullTracks },
     added_at : Timestamps]

SimplifiedTracks ==
    { [kind |-> "simplified", id |-> None, uri |-> "u2", name |-> <<98>>,
       artists |-> al, duration_ms |-> 1] : al \in UpstreamArtistLists }

UpstreamLoads ==
    UNION { [1..n -> PlaylistTracks \cup SimplifiedTracks] : n \in 0..MaxItems }

otherVarsOfConvert == <<state, lock, render, update, committed, view, trunc>>

InitConvert ==
    /\ pending \in UpstreamLoads
    /\ loaded = <<>>
    /\ proc = "running"
    /\ op = [name |-> "new", outcome |-> "none"]
    /\ state = StateDefault
    /\ lock = [readers |-> 0, writer |-> FALSE]
    /\ render = [pc |-> "idle", ty |-> None, desc |-> ""]
    /\ update = [pc |-> "idle"]
    /\ committed = StateDefault
    /\ view = NoView
    /\ trunc = [s |-> <<>>, max_len |-> 0, out |-> <<>>, pc |-> "idle"]

\* the next upstream record is a playlist item: Track::from converts it, or
\* panics, which ends the thread that called it
ConvertPlaylistTrack ==
    /\ proc = "running"
    /\ pending # <<>>
    /\ Head(pending).kind = "playlist"
    /\ LET r == TrackFromPlaylistTrack(Head(pending)) IN
         IF r.panic
         THEN /\ proc' = "panicked"
              /\ op' = [name |-> "from_playlist_track", outcome |-> "panic"]
              /\ UNCHANGED <<pending, loaded>>
         ELSE /\ loaded' = Append(loaded, [src |-> Head(pending), track |-> r.track])
              /\ pending' = Tail(pending)
              /\ op' = [name |-> "from_playlist_track", outcome |-> "track"]
              /\ UNCHANGED proc
    /\ UNCHANGED otherVarsOfConvert

ConvertSimplifiedTrack ==
    /\ proc = "running"
    /\ pending # <<>>
    /\ Head(pending).kind = "simplified"
    /\ loaded' = Append(loaded, [src |-> Head(pending),
                                 track |-> TrackFromSimplifiedTrack(Head(pending))])
    /\ pending' = Tail(pending)
    /\ op' = [name |-> "from_simplified_track", outcome |-> "track"]
    /\ UNCHANGED proc
    /\ UNCHANGED otherVarsOfConvert

NextConvert ==
    \/ ConvertPlaylistTrack
    \/ ConvertSimplifiedTrack

SpecConvert == InitConvert /\ [][NextConvert]_vars

-----------------------------------------------------------------------------
(* Claims about the conversions *)

\* the source artists of a converted record
SrcArtists(l) == IF l.src.kind = "playlist" THEN l.src.track.val.artists ELSE l.src.artists

\* the number of code points before the i-th name in the joined names
RECURSIVE NameOffset(_, _)
NameOffset(artists, i) ==
    IF i = 1 THEN 0 ELSE NameOffset(artists, i - 1) + Len(artists[i - 1].name) + 1

\* C7: the conversion of a playlist item without a track payload reports an
\* error to its caller: it yields no Track, does not end the process and
\* leaves the State as it was.
C7_AbsentPayloadIsAnError ==
    (pending # <<>> /\ Head(pending).kind = "playlist" /\ Head(pending).track = None
        /\ op.name = "from_playlist_track") =>
        /\ op.outcome = "error"
        /\ proc = "running"
        /\ state = StateDefault

\* C9: a converted Track has as many artists as its source, the i-th with the
\* id, uri and name of the i-th source artist, and get_artists_info is those
\* names in that order with one comma between neighbours and none before the
\* first or after the last.
C9_ArtistsKeptAndJoined ==
    \A n \in 1..Len(loaded) :
        LET src == SrcArtists(loaded[n])
            got == loaded[n].track.artists
            info == get_artists_info(loaded[n].track)
            k == Len(src)
        IN /\ Len(got) = k
           /\ \A i \in 1..k :
                 /\ got[i].id = src[i].id
                 /\ got[i].uri = src[i].uri
                 /\ got[i].name = src[i].name
           /\ Len(info) = IF k = 0 THEN 0
                           ELSE NameOffset(src, k) + Len(src[k].name)
           /\ \A i \in 1..k :
                 /\ SubSeq(info, NameOffset(src, i) + 1,
                           NameOffset(src, i) + Len(src[i].name)) = src[i].name
                 /\ i < k => info[NameOffset(src, i) + Len(src[i].name) + 1] = 44

\* C9's case: a playlist item and a simplified track were converted, one with
\* the same artist twice and one with three artists.
C9_Witness ==
    /\ Len(loaded) = 2
    /\ \E n, m \in 1..Len(loaded) :
          /\ loaded[n].src.kind = "playlist"
          /\ loaded[m].src.kind = "simplified"
          /\ Len(loaded[n].track.artists) = 2
          /\ loaded[n].track.artists[1] = loaded[n].track.artists[2]
          /\ Len(loaded[m].track.artists) = 3
          /\ get_artists_info(loaded[m].track) = <<98, 44, 44, 97>>

\* C10: the conversion keeps the order of the add-timestamps, negative ones
\* included: of two converted playlist items the one with the earlier
\* timestamp has the smaller added_at; and only the epoch converts to 0.
C10_AddedAtKeepsTimeOrder ==
    \A n, m \in 1..Len(loaded) :
        (loaded[n].src.kind = "playlist" /\ loaded[m].src.kind = "playlist") =>
            /\ loaded[n].src.added_at <= loaded[m].src.added_at
                  => compare("AddedAt", loaded[n].track, loaded[m].track) # "Greater"
            /\ loaded[n].track.added_at = 0 => loaded[n].src.added_at = 0

====
